---- MODULE Spec2Model ----
(***************************************************************************)
(* State-machine model of the gltfio asset loader (FAssetLoader in         *)
(* AssetLoader.cpp) and of the asset container it fills (FFilamentAsset).  *)
(* One call of createAssetFromJson/createAssetFromBinary is unrolled into  *)
(* its steps: entry, one step per createEntity call, one step per          *)
(* iteration of the primitive loop, and the tail of createAsset.           *)
(***************************************************************************)
EXTENDS Integers, Sequences, FiniteSets, TLC

(* ------------------------------ bounds -------------------------------- *)
\* documents plus nodes parsed over a whole behaviour
MaxParsed == 3
\* explicit releaseSourceData calls a client makes over a whole behaviour
MaxReleases == 2
\* nodes of the two documents that two loaders at work together import
PairNodes == 2
\* AnimationHelper objects a client constructs over a whole behaviour
MaxHelpers == 1
\* build calls that one loader serves one after the other
MaxBuilds == 2
\* nodes of all the documents that one loader imports one after the other
RebuildNodes == 2

(* ------------------------ handles and pointers ------------------------ *)
NullPtr == 0
\* a pointer value that denotes no object of the program
WildPtr == 0 - 1
\* the identity matrix; node i of a generated document has local matrix i >= 1
IdentityTransform == 0
\* what an undefined read of a pointer-sized slot can yield
UBOutcomes == {"null", "wild", "crash"}
UBPointer(ub) == IF ub = "null" THEN NullPtr ELSE WildPtr

LoaderIds == {1, 2}

(* ----------------- the parsed source document (cgltf) ----------------- *)
\* accessors: component type, element type, the optional min/max range, the
\* uri of the buffer behind the buffer view and the element count
Accessors ==
  << [component_type |-> "r_16u", type |-> "scalar",
      has_min |-> FALSE, has_max |-> FALSE, min |-> 0, max |-> 0,
      uri |-> "scene.bin", count |-> 3],
     [component_type |-> "r_32f", type |-> "vec3",
      has_min |-> TRUE, has_max |-> TRUE, min |-> 0 - 1, max |-> 2,
      uri |-> "scene.bin", count |-> 3],
     [component_type |-> "r_32f", type |-> "vec3",
      has_min |-> FALSE, has_max |-> FALSE, min |-> 0, max |-> 0,
      uri |-> "scene.bin", count |-> 3],
     [component_type |-> "r_32f", type |-> "scalar",
      has_min |-> FALSE, has_max |-> FALSE, min |-> 0, max |-> 0,
      uri |-> "scene.bin", count |-> 3],
     [component_type |-> "invalid", type |-> "vec3",
      has_min |-> FALSE, has_max |-> FALSE, min |-> 0, max |-> 0,
      uri |-> "scene.bin", count |-> 3] >>

\* the floats that the blob of a buffer holds where an accessor points
Floats ==
  [a \in 1..5 |-> IF a = 4 THEN <<0, 1, 3>>
                 ELSE IF a = 2 THEN <<1, 2, 3, 4, 5, 6, 7, 8, 9>>
                 ELSE << >>]

\* textures: image and sampler references (0 = absent)
Textures ==
  << [image |-> 1, sampler |-> 1],
     [image |-> 0, sampler |-> 1],
     [image |-> 2, sampler |-> 0] >>

NoTex == [texture |-> 0, texcoord |-> 0]
Tex(t) == [texture |-> t, texcoord |-> 0]

Materials ==
  << [has_pbr_metallic_roughness |-> TRUE, has_pbr_specular_glossiness |-> FALSE,
      double_sided |-> FALSE, unlit |-> FALSE,
      base_color_texture |-> Tex(1), metallic_roughness_texture |-> NoTex,
      normal_texture |-> NoTex, occlusion_texture |-> NoTex,
      emissive_texture |-> NoTex, factor |-> 1],
     [has_pbr_metallic_roughness |-> TRUE, has_pbr_specular_glossiness |-> FALSE,
      double_sided |-> FALSE, unlit |-> FALSE,
      base_color_texture |-> Tex(1), metallic_roughness_texture |-> NoTex,
      normal_texture |-> Tex(2), occlusion_texture |-> NoTex,
      emissive_texture |-> NoTex, factor |-> 2],
     [has_pbr_metallic_roughness |-> FALSE, has_pbr_specular_glossiness |-> TRUE,
      double_sided |-> TRUE, unlit |-> FALSE,
      base_color_texture |-> Tex(1), metallic_roughness_texture |-> NoTex,
      normal_texture |-> NoTex, occlusion_texture |-> NoTex,
      emissive_texture |-> Tex(3), factor |-> 3],
     [has_pbr_metallic_roughness |-> TRUE, has_pbr_specular_glossiness |-> FALSE,
      double_sided |-> FALSE, unlit |-> FALSE,
      base_color_texture |-> Tex(1), metallic_roughness_texture |-> NoTex,
      normal_texture |-> NoTex, occlusion_texture |-> NoTex,
      emissive_texture |-> NoTex, factor |-> 4],
     [has_pbr_metallic_roughness |-> FALSE, has_pbr_specular_glossiness |-> TRUE,
      double_sided |-> FALSE, unlit |-> FALSE,
      base_color_texture |-> NoTex, metallic_roughness_texture |-> NoTex,
      normal_texture |-> NoTex, occlusion_texture |-> NoTex,
      emissive_texture |-> NoTex, factor |-> 5] >>

Attr(t, a) == [type |-> t, data |-> a]
Prim(t, i, as, m) == [type |-> t, indices |-> i, attributes |-> as, material |-> m]

\* meshes: each a list of primitives
Meshes ==
  << << Prim("triangles", 1, <<Attr("position", 2), Attr("normal", 3)>>, 1) >>,
     << Prim("lines", 1, <<Attr("position", 2)>>, 1),
        Prim("points", 1, <<Attr("position", 2), Attr("normal", 3)>>, 4) >>,
     << >>,
     << Prim("invalid", 1, <<Attr("position", 2)>>, 1),
        Prim("triangles", 0, <<Attr("position", 2)>>, 3),
        Prim("triangles", 1, <<Attr("position", 2), Attr("normal", 5)>>, 2),
        Prim("triangles", 1, <<Attr("position", 2)>>, 0) >>,
     << Prim("points", 4, <<Attr("position", 2)>>, 1),
        Prim("triangles", 1, <<Attr("invalid", 2)>>, 4) >>,
     << Prim("triangles", 1, <<Attr("position", 2)>>, 5) >> >>

\* the meshes that the nodes of the generated documents reference; the last
\* mesh of the catalogue is the mesh of SpecGlossDoc
MeshIds == 1..(Len(Meshes) - 1)

RECURSIVE SortedSeq(_)
\* the elements of a finite set of integers in ascending order
SortedSeq(S) ==
  IF S = {} THEN << >>
  ELSE LET m == CHOOSE x \in S : \A y \in S : x <= y
       IN  <<m>> \o SortedSeq(S \ {m})

\* parent of each node, 0 for a root of the scene
ParentMaps(n) == {p \in [1..n -> 0..(n - 1)] : \A i \in 1..n : p[i] < i}

\* an animation without samplers and channels
Rest == [name |-> "rest", samplers |-> << >>, channels |-> << >>]

\* an animation of two samplers that moves the first and the last of n nodes
Walk(n) ==
  [name |-> "walk",
   samplers |-> << [input |-> 4, output |-> 2, interpolation |-> "linear"],
                   [input |-> 4, output |-> 2, interpolation |-> "step"] >>,
   channels |-> << [sampler |-> 1, target_node |-> 1, target_path |-> "translation"],
                   [sampler |-> 2, target_node |-> n, target_path |-> "rotation"] >>]

TreeDoc(n, p, m) ==
  [scene |-> 0,
   animations |-> IF n = 0 THEN << >> ELSE <<Rest, Walk(n)>>,
   scenes |-> << SortedSeq({i \in 1..n : p[i] = 0}) >>,
   nodes |-> [i \in 1..n |->
               [mesh |-> m[i],
                children |-> SortedSeq({j \in 1..n : p[j] = i}),
                xform |-> i]]]

\* the generated documents, by number of nodes
TreeDocs ==
  [n \in 0..(MaxParsed - 1) |->
     {TreeDoc(n, p, m) : p \in ParentMaps(n), m \in [1..n -> {0} \cup MeshIds]}]

\* a document that declares no scene at all
NoSceneDoc == [scene |-> 0, animations |-> << >>, scenes |-> << >>, nodes |-> << >>]

\* a document whose default scene is its second scene; node 1 is in no
\* scene that is imported
TwoSceneDoc ==
  [scene |-> 2,
   animations |-> <<Rest>>,
   scenes |-> << <<1>>, <<2>> >>,
   nodes |-> << [mesh |-> 0, children |-> << >>, xform |-> 1],
                [mesh |-> 1, children |-> << >>, xform |-> 2] >>]

\* a document of one triangle whose material uses the specular-glossiness
\* model and is like any other material in all else
SpecGlossDoc ==
  [scene |-> 0,
   animations |-> << >>,
   scenes |-> << <<1>> >>,
   nodes |-> << [mesh |-> Len(Meshes), children |-> << >>, xform |-> 1] >>]

\* the documents of exactly n nodes
Documents ==
  [n \in 0..(MaxParsed - 1) |->
     TreeDocs[n] \cup {d \in {NoSceneDoc, TwoSceneDoc, SpecGlossDoc} : Len(d.nodes) = n}]


(* --------------- GltfEnums.h conversions (recognised kinds) ----------- *)
getPrimitiveType(t) == t \in {"points", "lines", "triangles"}
getIndexType(c) == c \in {"r_16u", "r_32u"}
getVertexAttribute(t) ==
  t \in {"position", "normal", "tangent", "texcoord", "color", "joints", "weights"}
getElementType(t, c) == c \in {"r_8", "r_8u", "r_16", "r_16u", "r_32f"}

(* ------------------------------- state -------------------------------- *)
VARIABLES
  loader,   \* per FAssetLoader: transient maps, mResult, mError, call position
  assets,   \* every FFilamentAsset ever allocated, in allocation order
  docs,     \* every cgltf_data ever parsed: content and number of cgltf_free calls
  engine,   \* the Engine / EntityManager: live objects and handle counters
  helpers   \* every AnimationHelper construction, in order

vars == <<loader, assets, docs, engine, helpers>>

EmptyMap == [x \in {} |-> NullPtr]
\* filament::Aabb default value: min = FLT_MAX, max = -FLT_MAX
EmptyAabb == [empty |-> TRUE]
\* the locals of the createEntity call that is inside its primitive loop
NoCur == [node |-> 0, entity |-> NullPtr, mesh |-> 0, index |-> 0, mi |-> NullPtr]

\* FAssetLoader after its constructor
NewLoader ==
  [pc |-> "idle", ret |-> NullPtr, srcAsset |-> NullPtr,
   mResult |-> NullPtr, mNodeToEntity |-> EmptyMap,
   mMatInstanceCache |-> EmptyMap, mMeshCache |-> EmptyMap, mError |-> FALSE,
   mMaterials |-> EmptyMap, fault |-> "none",
   todo |-> << >>, cur |-> NoCur, geometryCalls |-> << >>,
   atCall |-> [entities |-> {}, vertexBuffers |-> {}, indexBuffers |-> {},
               materialInstances |-> {}]]

\* FFilamentAsset after its constructor
NewAsset ==
  [alive |-> TRUE, releaseCalls |-> 0,
   mEntities |-> << >>, mMaterialInstances |-> << >>,
   mBoundingBox |-> EmptyAabb, mRoot |-> NullPtr,
   mBufferBindings |-> << >>, mTextureBindings |-> << >>,
   mAnimationBuffer |-> << >>, mSourceAsset |-> NullPtr, mNodeMap |-> EmptyMap]

NewEngine ==
  [entities |-> {}, vertexBuffers |-> {}, indexBuffers |-> {},
   materialInstances |-> EmptyMap, materials |-> {}, transforms |-> EmptyMap,
   renderables |-> EmptyMap,
   nextEntity |-> 1, nextVertexBuffer |-> 1, nextIndexBuffer |-> 1,
   nextMaterialInstance |-> 1, nextMaterial |-> 1]

Init ==
  /\ loader = [l \in LoaderIds |-> NewLoader]
  /\ assets = << >>
  /\ docs = << >>
  /\ engine = NewEngine
  /\ helpers = << >>

(* ----------------------------- cgltf ---------------------------------- *)
\* cgltf_free(data): no-op on a null pointer, otherwise releases the document
cgltf_free(D, data) ==
  IF data = NullPtr THEN D
  ELSE [D EXCEPT ![data].freed = @ + 1]

(* --------------------------- FFilamentAsset --------------------------- *)
\* mutant of releaseSourceData: the buffer binding list is kept
releaseKeepingBindings(A, D) ==
  [A |-> [A EXCEPT !.releaseCalls = @ + 1,
                   !.mTextureBindings = << >>,
                   !.mAnimationBuffer = << >>,
                   !.mSourceAsset = NullPtr,
                   !.mNodeMap = EmptyMap],
   D |-> cgltf_free(D, A.mSourceAsset)]

\* mutant of releaseSourceData: mSourceAsset is not reset after the free
releaseKeepingSource(A, D) ==
  [A |-> [A EXCEPT !.releaseCalls = @ + 1,
                   !.mBufferBindings = << >>,
                   !.mTextureBindings = << >>,
                   !.mAnimationBuffer = << >>,
                   !.mNodeMap = EmptyMap],
   D |-> cgltf_free(D, A.mSourceAsset)]

releaseSourceData(A, D) ==
  [A |-> [A EXCEPT !.releaseCalls = @ + 1,
                   !.mBufferBindings = << >>,
                   !.mTextureBindings = << >>,
                   !.mAnimationBuffer = << >>,
                   !.mSourceAsset = NullPtr,
                   !.mNodeMap = EmptyMap],
   D |-> cgltf_free(D, A.mSourceAsset)]

\* ~FFilamentAsset followed by deallocation; no Filament object is freed
DeleteAsset(A, D) ==
  LET r == releaseSourceData(A, D)
  IN  [A |-> [r.A EXCEPT !.alive = FALSE], D |-> r.D]


(* ------------------- MaterialGenerator (mMaterials) ------------------- *)
\* getOrCreateMaterial: the loader's generator keeps one Material per
\* distinct MaterialKey
getOrCreateMaterial(S, matkey) ==
  IF matkey \in DOMAIN S.L.mMaterials THEN S
  ELSE [S EXCEPT !.L.mMaterials = @ @@ (matkey :> S.E.nextMaterial),
                 !.E.materials = @ \cup {S.E.nextMaterial},
                 !.E.nextMaterial = @ + 1]

(* ----------------------------- FAssetLoader --------------------------- *)
\* The operators below transform a bundle S = [L, A, E, crashed]:
\* L the loader, A the asset *mResult, E the engine, crashed set when the
\* process has died on an undefined access; L.fault then names the pointer
\* that was read: iter (the end iterator of line 335), inputMat (a null
\* material, lines 338-357) or sampler (a null sampler, lines 410-413).

SetError(S) == [S EXCEPT !.L.mError = TRUE]

\* the slot of the mesh cache that outPrim points at
Slot(L, mesh, index) == L.mMeshCache[mesh][index]

\* mutant of NeedsBuild: the cache slot is never consulted
NeedsBuildAlways(L, mesh, index) == TRUE

\* line 221: the slot holds no vertex buffer yet
NeedsBuild(L, mesh, index) == Slot(L, mesh, index).vertices = NullPtr

\* first attribute of inPrim that the attribute loop rejects, 0 if none
FirstBadAttribute(inPrim) ==
  LET bad == {a \in 1..Len(inPrim.attributes) :
                \/ ~getVertexAttribute(inPrim.attributes[a].type)
                \/ ~getElementType(Accessors[inPrim.attributes[a].data].type,
                                   Accessors[inPrim.attributes[a].data].component_type)}
  IN  IF bad = {} THEN 0 ELSE CHOOSE a \in bad : \A b \in bad : a <= b

\* mutant of IndexBinding: the index buffer is also put down as the vertex
\* destination
IndexBindingBothDestinations(inPrim, indices) ==
  [accessor |-> inPrim.indices, vertexBuffer |-> indices, indexBuffer |-> indices,
   animationBuffer |-> NullPtr, bufferIndex |-> 0]

\* lines 276-281: the binding of the index accessor
IndexBinding(inPrim, indices) ==
  [accessor |-> inPrim.indices, vertexBuffer |-> NullPtr, indexBuffer |-> indices,
   animationBuffer |-> NullPtr, bufferIndex |-> 0]

VertexBinding(inPrim, attr, vertices) ==
  [accessor |-> inPrim.attributes[attr].data, vertexBuffer |-> vertices,
   indexBuffer |-> NullPtr, animationBuffer |-> NullPtr, bufferIndex |-> attr - 1]

\* mutant of VertexBindings: the loop stops one attribute early
VertexBindingsShort(inPrim, vertices) ==
  [attr \in 1..(Len(inPrim.attributes) - 1) |-> VertexBinding(inPrim, attr, vertices)]

\* lines 316-326: one binding per vertex attribute
VertexBindings(inPrim, vertices) ==
  [attr \in 1..Len(inPrim.attributes) |-> VertexBinding(inPrim, attr, vertices)]

\* lines 262-281: the index buffer and its binding
BuildIndexBuffer(S, inPrim, indices) ==
  [S EXCEPT !.E.nextIndexBuffer = @ + 1,
            !.E.indexBuffers = @ \cup {indices},
            !.A.mBufferBindings = Append(@, IndexBinding(inPrim, indices))]

\* lines 283-329: the vertex buffer, its bindings, and the cache slot
BuildVertexBuffer(S, inPrim, mesh, index, indices, vertices) ==
  IF FirstBadAttribute(inPrim) # 0 THEN SetError(S)
  ELSE [S EXCEPT
          !.E.nextVertexBuffer = @ + 1,
          !.E.vertexBuffers = @ \cup {vertices},
          !.A.mBufferBindings = @ \o VertexBindings(inPrim, vertices),
          !.L.mMeshCache[mesh][index] = [vertices |-> vertices, indices |-> indices]]

createPrimitive(S, inPrim, mesh, index) ==
  IF inPrim.indices = NullPtr THEN SetError(S)
  ELSE IF ~getIndexType(Accessors[inPrim.indices].component_type) THEN SetError(S)
  ELSE BuildVertexBuffer(BuildIndexBuffer(S, inPrim, S.E.nextIndexBuffer),
                         inPrim, mesh, index,
                         S.E.nextIndexBuffer, S.E.nextVertexBuffer)

\* present: the guard of the call site (lines 379-398)
addTextureBinding(S, present, materialInstance, parameterName, srcTexture, ub) ==
  IF S.crashed \/ ~present THEN S
  ELSE IF Textures[srcTexture].image = NullPtr THEN S
  ELSE IF Textures[srcTexture].sampler = NullPtr /\ ub = "crash"
       THEN [S EXCEPT !.crashed = TRUE, !.L.fault = "sampler"]
  ELSE [S EXCEPT !.A.mTextureBindings = Append(@,
          [image |-> Textures[srcTexture].image,
           materialInstance |-> materialInstance,
           materialParameter |-> parameterName,
           sampler |-> IF Textures[srcTexture].sampler = NullPtr
                       THEN "indeterminate"
                       ELSE Textures[srcTexture].sampler])]

MaterialKey(inputMat) ==
  LET m == Materials[inputMat]
      has_pbr == m.has_pbr_metallic_roughness
  IN  [doubleSided |-> m.double_sided,
       unlit |-> m.unlit,
       hasVertexColors |-> FALSE,
       hasBaseColorTexture |-> has_pbr /\ m.base_color_texture.texture # NullPtr,
       hasMetallicRoughnessTexture |->
           has_pbr /\ m.metallic_roughness_texture.texture # NullPtr,
       hasNormalTexture |-> m.normal_texture.texture # NullPtr,
       hasOcclusionTexture |-> m.occlusion_texture.texture # NullPtr,
       hasEmissiveTexture |-> m.emissive_texture.texture # NullPtr,
       alphaMode |-> "OPAQUE",
       baseColorUV |-> m.base_color_texture.texcoord,
       metallicRoughnessUV |-> m.metallic_roughness_texture.texcoord,
       emissiveUV |-> m.emissive_texture.texcoord,
       aoUV |-> m.occlusion_texture.texcoord,
       normalUV |-> m.normal_texture.texcoord]

\* mutant of EarlyReturn: the early return is taken when the entry is found
EarlyReturnOnHit(cache, inputMat) == inputMat \in DOMAIN cache

\* the test that guards the early return of createMaterialInstance
EarlyReturn(cache, inputMat) == inputMat \notin DOMAIN cache

\* line 400: insert the finished instance and return it
Cache(S, inputMat, mi) ==
  IF S.crashed THEN [S |-> S, result |-> NullPtr]
  ELSE [S |-> [S EXCEPT !.L.mMatInstanceCache =
                  [k \in DOMAIN @ \cup {inputMat} |->
                     IF k = inputMat THEN mi ELSE @[k]]],
        result |-> mi]

\* lines 363-377: instantiate the material the generator holds for matkey,
\* list the instance in the asset and set its parameters
CreateInstance(S, inputMat, matkey, mi) ==
  [S EXCEPT
     !.E.nextMaterialInstance = @ + 1,
     !.E.materialInstances = @ @@
        (mi :> [material |-> S.L.mMaterials[matkey],
                source |-> inputMat,
                params |-> {"emissiveFactor", "normalScale", "aoStrength"}
                  \cup (IF Materials[inputMat].has_pbr_metallic_roughness
                        THEN {"baseColorFactor", "metallicFactor",
                              "roughnessFactor"}
                        ELSE {})]),
     !.A.mMaterialInstances = Append(@, mi)]

\* lines 379-398: the five texture slots in source order
TextureBindings(S, m, matkey, mi, ub) ==
  addTextureBinding(
    addTextureBinding(
      addTextureBinding(
        addTextureBinding(
          addTextureBinding(S, matkey.hasBaseColorTexture, mi,
            "baseColorMap", m.base_color_texture.texture, ub),
          matkey.hasMetallicRoughnessTexture, mi,
          "metallicRoughnessMap", m.metallic_roughness_texture.texture, ub),
        matkey.hasNormalTexture, mi, "normalMap", m.normal_texture.texture, ub),
      matkey.hasOcclusionTexture, mi, "occlusionMap", m.occlusion_texture.texture, ub),
    matkey.hasEmissiveTexture, mi, "emissiveMap", m.emissive_texture.texture, ub)

\* lines 338-400 for a material whose key is matkey
BuildFromKey(S, inputMat, matkey, mi, ub) ==
  Cache(TextureBindings(
          CreateInstance(getOrCreateMaterial(S, matkey), inputMat, matkey, mi),
          Materials[inputMat], matkey, mi, ub),
        inputMat, mi)

\* lines 338-400: build, parameterise and cache a new instance; reading the
\* fields of a null inputMat kills the process
BuildMaterialInstance(S, inputMat, ub) ==
  IF inputMat = NullPtr
  THEN [S |-> [S EXCEPT !.crashed = TRUE, !.L.fault = "inputMat"], result |-> NullPtr]
  ELSE BuildFromKey(S, inputMat, MaterialKey(inputMat), S.E.nextMaterialInstance, ub)

\* ub: the outcome of reading iter->second through the end iterator
createMaterialInstance(S, inputMat, ub) ==
  IF EarlyReturn(S.L.mMatInstanceCache, inputMat)
  THEN IF ub = "crash"
       THEN [S |-> [S EXCEPT !.crashed = TRUE, !.L.fault = "iter"], result |-> NullPtr]
       ELSE [S |-> S, result |-> UBPointer(ub)]
  ELSE BuildMaterialInstance(S, inputMat, ub)


(* ------------------------------ actions ------------------------------- *)
\* the process has died on an undefined access: nothing runs any more
Crashed == \E l \in LoaderIds : loader[l].pc = "crashed"

\* the document that loader record L is importing
SourceOf(L) == docs[L.srcAsset].data

\* createAsset, line 162: the default scene, else the first scene, else none
ChosenScene(srcAsset) ==
  IF srcAsset.scene # 0 THEN srcAsset.scene
  ELSE IF Len(srcAsset.scenes) > 0 THEN 1 ELSE 0

\* the pending createEntity calls for a list of nodes under one parent
Calls(nodes, parent) == [i \in 1..Len(nodes) |-> [node |-> nodes[i], parent |-> parent]]

LiveObjects(E) ==
  [entities |-> E.entities, vertexBuffers |-> E.vertexBuffers,
   indexBuffers |-> E.indexBuffers, materialInstances |-> DOMAIN E.materialInstances]

RECURSIVE Parsed(_)
\* the number of documents of D plus the number of their nodes
Parsed(D) ==
  IF D = << >> THEN 0 ELSE 1 + Len(Head(D).data.nodes) + Parsed(Tail(D))

\* mutant of ReturnWithoutScene: a document without scenes is an error
ReturnWithoutSceneAsError(L, a, d) ==
  [L EXCEPT !.mResult = NullPtr, !.ret = NullPtr, !.srcAsset = d,
            !.geometryCalls = << >>, !.atCall = LiveObjects(engine)]

\* lines 163-165: no scene to import, mResult is handed back as it is
ReturnWithoutScene(L, a, d) ==
  [L EXCEPT !.mResult = a, !.ret = a, !.srcAsset = d,
            !.geometryCalls = << >>, !.atCall = LiveObjects(engine)]

\* createAsset up to the loop over the root nodes (lines 156-168)
createAsset(l, srcAsset) ==
  LET d == Len(docs) + 1
      a == Len(assets) + 1
      scene == ChosenScene(srcAsset)
  IN  /\ docs' = Append(docs, [data |-> srcAsset, freed |-> 0])
      /\ assets' = Append(assets, [NewAsset EXCEPT !.mSourceAsset = d])
      /\ loader' = [loader EXCEPT ![l] =
           IF scene = 0
           THEN ReturnWithoutScene(@, a, d)
           ELSE [@ EXCEPT !.mResult = a, !.pc = "build", !.srcAsset = d,
                          !.todo = Calls(srcAsset.scenes[scene], NullPtr),
                          !.geometryCalls = << >>, !.atCall = LiveObjects(engine)]]
      /\ UNCHANGED <<engine, helpers>>

\* mutant of ParseFailure: the failure is remembered in the error flag
ParseFailureSetsError(l) ==
  /\ loader' = [loader EXCEPT ![l].ret = NullPtr, ![l].mError = TRUE]
  /\ UNCHANGED <<assets, docs, engine, helpers>>

\* cgltf_parse did not succeed: nullptr is returned and nothing else happens
ParseFailure(l) ==
  /\ loader' = [loader EXCEPT ![l].ret = NullPtr]
  /\ UNCHANGED <<assets, docs, engine, helpers>>

createAssetFromJson(l) ==
  /\ ~Crashed
  /\ loader[l].pc = "idle"
  /\ \/ ParseFailure(l)
     \/ \E n \in 0..(MaxParsed - 1 - Parsed(docs)) :
          \E srcAsset \in Documents[n] : createAsset(l, srcAsset)

createAssetFromBinary(l) ==
  /\ ~Crashed
  /\ loader[l].pc = "idle"
  /\ \/ ParseFailure(l)
     \/ \E n \in 0..(MaxParsed - 1 - Parsed(docs)) :
          \E srcAsset \in Documents[n] : createAsset(l, srcAsset)

\* mutant of getInstance: no entity is found to have a transform
getInstanceOfNone(E, e) == NullPtr

\* TransformManager::getInstance
getInstance(E, e) == IF e \in DOMAIN E.transforms THEN e ELSE NullPtr

\* createEntity up to the primitive loop (lines 186-209); a node without a
\* mesh goes straight on to its children (lines 248-250)
createEntity(l) ==
  LET L == loader[l]
      call == Head(L.todo)
      srcNode == SourceOf(L).nodes[call.node]
      entity == engine.nextEntity
      mesh == srcNode.mesh
      nprims == Len(Meshes[mesh])
  IN  /\ ~Crashed
      /\ L.pc = "build"
      /\ L.todo # << >>
      /\ engine' = [engine EXCEPT
            !.nextEntity = @ + 1,
            !.entities = @ \cup {entity},
            !.transforms = @ @@ (entity :>
                [parent |-> getInstance(engine, call.parent), local |-> srcNode.xform])]
      /\ loader' = [loader EXCEPT ![l] =
           LET L1 == [L EXCEPT !.mNodeToEntity =
                        [n \in DOMAIN @ \cup {call.node} |->
                           IF n = call.node THEN entity ELSE @[n]]]
           IN  IF mesh # NullPtr
               THEN [L1 EXCEPT
                       !.mMeshCache =
                          IF mesh \in DOMAIN @ THEN @
                          ELSE @ @@ (mesh :> [i \in 1..nprims |->
                                 [vertices |-> NullPtr, indices |-> NullPtr]]),
                       !.cur = [node |-> call.node, entity |-> entity, mesh |-> mesh,
                                index |-> 1, mi |-> NullPtr],
                       !.todo = Tail(@),
                       !.pc = "prims"]
               ELSE [L1 EXCEPT !.todo = Calls(srcNode.children, entity) \o Tail(@)]]
      /\ UNCHANGED <<assets, docs, helpers>>

\* lines 220-223: make sure the slot of the mesh cache is filled
EnsurePrimitive(S, inputPrim, mesh, index) ==
  IF NeedsBuild(S.L, mesh, index) THEN createPrimitive(S, inputPrim, mesh, index) ELSE S

\* line 229: builder.geometry with the buffers of the slot
Geometry(S, inputPrim, mesh, index) ==
  [S EXCEPT !.L.geometryCalls = Append(@,
      [node |-> S.L.cur.node, mesh |-> mesh, index |-> index,
       type |-> inputPrim.type,
       vertices |-> Slot(S.L, mesh, index).vertices,
       indices |-> Slot(S.L, mesh, index).indices])]

\* lines 232-234: take what createMaterialInstance returned, next iteration
Material(r) ==
  IF r.S.crashed
  THEN [r.S EXCEPT !.L.pc = "crashed"]
  ELSE [r.S EXCEPT !.L.cur.mi = r.result, !.L.cur.index = @ + 1]

\* mutant of LoopBody: a primitive of an unknown type ends the loop
LoopBodyBreaking(S, inputPrim, mesh, index, ub) ==
  IF ~getPrimitiveType(inputPrim.type)
  THEN [S EXCEPT !.L.mError = TRUE, !.L.cur.index = Len(Meshes[mesh]) + 1]
  ELSE Material(createMaterialInstance(
         Geometry(EnsurePrimitive(S, inputPrim, mesh, index), inputPrim, mesh, index),
         inputPrim.material, ub))

\* lines 213-233: the body of the primitive loop
LoopBody(S, inputPrim, mesh, index, ub) ==
  IF ~getPrimitiveType(inputPrim.type)
  THEN [S EXCEPT !.L.mError = TRUE, !.L.cur.index = @ + 1]
  ELSE Material(createMaterialInstance(
         Geometry(EnsurePrimitive(S, inputPrim, mesh, index), inputPrim, mesh, index),
         inputPrim.material, ub))

\* mutant of Commit: the error flag is one flag for all loaders
CommitSharingError(l, a, F) ==
  /\ loader' = [k \in LoaderIds |->
                  IF k = l THEN F.L
                  ELSE [loader[k] EXCEPT !.mError = @ \/ F.L.mError]]
  /\ assets' = [assets EXCEPT ![a] = F.A]
  /\ engine' = F.E

\* the outcome of one loop iteration written back to the variables
Commit(l, a, F) ==
  /\ loader' = [loader EXCEPT ![l] = F.L]
  /\ assets' = [assets EXCEPT ![a] = F.A]
  /\ engine' = F.E

\* one iteration of the primitive loop (lines 212-234)
PrimitiveStep(l) ==
  LET L == loader[l]
  IN  /\ ~Crashed
      /\ L.pc = "prims"
      /\ L.cur.index <= Len(Meshes[L.cur.mesh])
      /\ \E ub \in UBOutcomes :
           Commit(l, L.mResult,
                  LoopBody([L |-> L, A |-> assets[L.mResult], E |-> engine,
                            crashed |-> FALSE],
                           Meshes[L.cur.mesh][L.cur.index], L.cur.mesh, L.cur.index, ub))
      /\ UNCHANGED <<docs, helpers>>

\* mutant of EndMesh: a mesh without primitives is an error
EndMeshRejectingEmpty(l) ==
  LET L == loader[l]
      srcNode == SourceOf(L).nodes[L.cur.node]
  IN  /\ ~Crashed
      /\ L.pc = "prims"
      /\ L.cur.index > Len(Meshes[L.cur.mesh])
      /\ loader' = [loader EXCEPT ![l] =
           [L EXCEPT !.todo = Calls(srcNode.children, L.cur.entity) \o @,
                     !.mError = @ \/ Len(Meshes[L.cur.mesh]) = 0,
                     !.cur = NoCur,
                     !.pc = "build"]]
      /\ UNCHANGED <<assets, docs, engine, helpers>>

\* the rest of createEntity once the loop is over (lines 236-250): the
\* builder goes out of scope without build() and the children are visited
EndMesh(l) ==
  LET L == loader[l]
      srcNode == SourceOf(L).nodes[L.cur.node]
  IN  /\ ~Crashed
      /\ L.pc = "prims"
      /\ L.cur.index > Len(Meshes[L.cur.mesh])
      /\ loader' = [loader EXCEPT ![l] =
           [L EXCEPT !.todo = Calls(srcNode.children, L.cur.entity) \o @,
                     !.cur = NoCur,
                     !.pc = "build"]]
      /\ UNCHANGED <<assets, docs, engine, helpers>>

\* mutant of BuildResult: the error flag is not looked at
BuildResultIgnoringError(L) == L.mResult

\* lines 174-177: what mResult holds once the error flag has been looked at
BuildResult(L) == IF L.mError THEN NullPtr ELSE L.mResult

\* mutant of FinishAsset: the error flag outlives the call
FinishAssetKeepingError(l) ==
  LET L == loader[l]
      r == DeleteAsset(assets[L.mResult], docs)
      result == BuildResult(L)
  IN  /\ ~Crashed
      /\ L.pc = "build"
      /\ L.todo = << >>
      /\ IF L.mError
         THEN /\ assets' = [assets EXCEPT ![L.mResult] = r.A]
              /\ docs' = r.D
         ELSE UNCHANGED <<assets, docs>>
      /\ loader' = [loader EXCEPT ![l] =
           [L EXCEPT !.mResult = result,
                     !.mNodeToEntity = EmptyMap,
                     !.mMatInstanceCache = EmptyMap,
                     !.mMeshCache = EmptyMap,
                     !.ret = result,
                     !.pc = "idle"]]
      /\ UNCHANGED <<engine, helpers>>

\* mutant of FinishAsset: the mesh cache outlives the call
FinishAssetKeepingMeshes(l) ==
  LET L == loader[l]
      r == DeleteAsset(assets[L.mResult], docs)
      result == BuildResult(L)
  IN  /\ ~Crashed
      /\ L.pc = "build"
      /\ L.todo = << >>
      /\ IF L.mError
         THEN /\ assets' = [assets EXCEPT ![L.mResult] = r.A]
              /\ docs' = r.D
         ELSE UNCHANGED <<assets, docs>>
      /\ loader' = [loader EXCEPT ![l] =
           [L EXCEPT !.mResult = result,
                     !.mNodeToEntity = EmptyMap,
                     !.mMatInstanceCache = EmptyMap,
                     !.mError = FALSE,
                     !.ret = result,
                     !.pc = "idle"]]
      /\ UNCHANGED <<engine, helpers>>

\* the tail of createAsset (lines 174-183) and the return of mResult
FinishAsset(l) ==
  LET L == loader[l]
      r == DeleteAsset(assets[L.mResult], docs)
      result == BuildResult(L)
  IN  /\ ~Crashed
      /\ L.pc = "build"
      /\ L.todo = << >>
      /\ IF L.mError
         THEN /\ assets' = [assets EXCEPT ![L.mResult] = r.A]
              /\ docs' = r.D
         ELSE UNCHANGED <<assets, docs>>
      /\ loader' = [loader EXCEPT ![l] =
           [L EXCEPT !.mResult = result,
                     !.mNodeToEntity = EmptyMap,
                     !.mMatInstanceCache = EmptyMap,
                     !.mMeshCache = EmptyMap,
                     !.mError = FALSE,
                     !.ret = result,
                     !.pc = "idle"]]
      /\ UNCHANGED <<engine, helpers>>

\* the assets the caller holds: allocated, not deleted, not under construction
Held == {a \in 1..Len(assets) :
           /\ assets[a].alive
           /\ \A l \in LoaderIds : loader[l].pc = "idle" \/ loader[l].mResult # a}

\* the client thread is not inside a call of a loader
ClientRuns == \A l \in LoaderIds : loader[l].pc = "idle"

RECURSIVE ClientReleases(_)
\* the releaseSourceData calls on the assets of A that no destructor made
ClientReleases(A) ==
  IF A = << >> THEN 0
  ELSE Head(A).releaseCalls - (IF Head(A).alive THEN 0 ELSE 1)
       + ClientReleases(Tail(A))

\* mutant of ReleaseSourceData: the helpers constructed on the asset hold
\* views of the source data, which go away with it
ReleaseSourceDataUnderHelpers(a) ==
  LET r == releaseSourceData(assets[a], docs)
  IN  /\ ClientRuns
      /\ a \in Held
      /\ ClientReleases(assets) < MaxReleases
      /\ assets' = [assets EXCEPT ![a] = r.A]
      /\ docs' = r.D
      /\ helpers' = [h \in DOMAIN helpers |->
                       IF helpers[h].asset = a
                       THEN [helpers[h] EXCEPT !.animations = << >>]
                       ELSE helpers[h]]
      /\ UNCHANGED <<loader, engine>>

\* FilamentAsset::releaseSourceData called by the client
ReleaseSourceData(a) ==
  LET r == releaseSourceData(assets[a], docs)
  IN  /\ ClientRuns
      /\ a \in Held
      /\ ClientReleases(assets) < MaxReleases
      /\ assets' = [assets EXCEPT ![a] = r.A]
      /\ docs' = r.D
      /\ UNCHANGED <<loader, engine, helpers>>

\* AssetLoader::destroyAsset called by the client
destroyAsset(l, a) ==
  LET r == DeleteAsset(assets[a], docs)
  IN  /\ ClientRuns
      /\ a \in Held
      /\ assets' = [assets EXCEPT ![a] = r.A]
      /\ docs' = r.D
      /\ UNCHANGED <<loader, engine, helpers>>

(* --------------------------- AnimationHelper -------------------------- *)
numComponents(type) ==
  IF type = "vec3" THEN 3 ELSE IF type = "vec4" THEN 4 ELSE 1

\* lines 190-197: the uris of the bindings that carry an animation buffer
Blobs(A) ==
  {Accessors[A.mBufferBindings[i].accessor].uri :
     i \in {j \in DOMAIN A.mBufferBindings :
              A.mBufferBindings[j].animationBuffer # NullPtr}}

\* convert8 .. convert32F: count * numComponents floats; convert32F copies
\* them, the other four unpack each normalized integer
Convert(accessor) ==
  LET src == Accessors[accessor]
      n == src.count * numComponents(src.type)
  IN  IF src.component_type = "r_32f"
      THEN [i \in 1..n |-> Floats[accessor][i]]
      ELSE [i \in 1..n |-> [unpack |-> src.component_type, raw |-> Floats[accessor][i]]]

\* blobs.at(uri) finds no blob for the time line or for the values
SamplerThrows(src, blobs) ==
  \/ Accessors[src.input].uri \notin blobs
  \/ Accessors[src.output].uri \notin blobs

\* createSampler when both blobs are there; dst starts value-initialized
createSampler(src) ==
  LET times == {Floats[src.input][i] : i \in 1..Accessors[src.input].count}
  IN  IF Accessors[src.output].component_type
           \notin {"r_8", "r_8u", "r_16", "r_16u", "r_32f"}
      THEN [times |-> times, values |-> << >>, interpolation |-> "LINEAR"]
      ELSE [times |-> times,
            values |-> Convert(src.output),
            interpolation |-> IF src.interpolation = "step" THEN "STEP"
                              ELSE IF src.interpolation = "cubic_spline" THEN "CUBIC"
                              ELSE "LINEAR"]

\* setTransformType; dst starts value-initialized
setTransformType(target_path) ==
  IF target_path = "rotation" THEN "ROTATION"
  ELSE IF target_path = "scale" THEN "SCALE"
  ELSE "TRANSLATION"

\* mNodeMap[node]: the entry, default-inserted when it is missing
NodeMapLookup(nodeMap, node) ==
  IF node \in DOMAIN nodeMap THEN nodeMap[node] ELSE NullPtr

\* lines 203-222 for one animation whose samplers all find their blobs;
\* duration and name are never assigned and keep their initial values
ImportAnimation(srcAnim, nodeMap) ==
  [duration |-> 0,
   name |-> "",
   samplers |-> [j \in DOMAIN srcAnim.samplers |-> createSampler(srcAnim.samplers[j])],
   channels |-> [j \in DOMAIN srcAnim.channels |->
                  [sourceData |-> srcAnim.channels[j].sampler,
                   targetInstance |->
                      NodeMapLookup(nodeMap, srcAnim.channels[j].target_node),
                   transformType |->
                      setTransformType(srcAnim.channels[j].target_path)]]]

\* the node map after the lookups of the channels of srcAnim
NodeMapAfter(srcAnim, nodeMap) ==
  [n \in DOMAIN nodeMap \cup {srcAnim.channels[j].target_node :
                                 j \in DOMAIN srcAnim.channels} |->
     NodeMapLookup(nodeMap, n)]

RECURSIVE ImportAnimations(_, _, _, _)
\* the loop of lines 202-223 from animation i on; H is what the constructor
\* has built so far: [threw, animations, nodeMap]
ImportAnimations(srcAnims, i, blobs, H) ==
  IF i > Len(srcAnims) THEN H
  ELSE IF \E j \in DOMAIN srcAnims[i].samplers :
            SamplerThrows(srcAnims[i].samplers[j], blobs)
       THEN [H EXCEPT !.threw = TRUE]
       ELSE ImportAnimations(srcAnims, i + 1, blobs,
              [threw |-> FALSE,
               animations |-> Append(H.animations,
                                     ImportAnimation(srcAnims[i], H.nodeMap)),
               nodeMap |-> NodeMapAfter(srcAnims[i], H.nodeMap)])

\* the constructor, called by the client on an asset that still has its
\* source data (FilamentAsset.h line 108); when a blob is missing the
\* exception of blobs.at leaves it and no helper exists
AnimationHelper(a) ==
  LET H == ImportAnimations(docs[assets[a].mSourceAsset].data.animations, 1,
                            Blobs(assets[a]),
                            [threw |-> FALSE, animations |-> << >>,
                             nodeMap |-> assets[a].mNodeMap])
  IN  /\ ~Crashed
      /\ ClientRuns
      /\ a \in Held
      /\ assets[a].mSourceAsset # NullPtr
      /\ Len(helpers) < MaxHelpers
      /\ helpers' = Append(helpers,
            [asset |-> a, constructed |-> ~H.threw,
             animations |-> IF H.threw THEN << >> ELSE H.animations])
      /\ assets' = [assets EXCEPT ![a].mNodeMap = H.nodeMap]
      /\ UNCHANGED <<loader, docs, engine>>

\* getAnimationDuration of helper h
getAnimationDuration(h, animationIndex) == helpers[h].animations[animationIndex].duration

LoaderStep(l) ==
  \/ createAssetFromJson(l)
  \/ createAssetFromBinary(l)
  \/ createEntity(l)
  \/ PrimitiveStep(l)
  \/ EndMesh(l)
  \/ FinishAsset(l)
  \/ \E a \in 1..Len(assets) : destroyAsset(l, a)

Next ==
  \/ LoaderStep(1)
  \/ \E a \in 1..Len(assets) : ReleaseSourceData(a)
  \/ \E a \in 1..Len(assets) : AnimationHelper(a)

Spec == Init /\ [][Next]_vars

(* ----------------------- two loaders at work together ----------------- *)
\* createAssetFromJson with a parse that succeeds, once per loader
ImportOnce(l) ==
  /\ ~Crashed
  /\ loader[l].pc = "idle"
  /\ loader[l].srcAsset = NullPtr
  /\ \E n \in 0..(PairNodes - (Parsed(docs) - Len(docs))) :
       \E srcAsset \in Documents[n] : createAsset(l, srcAsset)

\* one step of the build that loader l runs
PairStep(l) ==
  \/ ImportOnce(l)
  \/ createEntity(l)
  \/ PrimitiveStep(l)
  \/ EndMesh(l)
  \/ FinishAsset(l)

NextPair == PairStep(1) \/ PairStep(2)

\* the steps of the two builds interleave in any order
SpecPair == Init /\ [][NextPair]_vars


(* ------------------ one loader serving call after call ---------------- *)
\* createAssetFromJson on a loader that may have served calls before
ImportNext(l) ==
  /\ ~Crashed
  /\ loader[l].pc = "idle"
  /\ Len(docs) < MaxBuilds
  /\ \E n \in 0..(RebuildNodes - (Parsed(docs) - Len(docs))) :
       \E srcAsset \in Documents[n] : createAsset(l, srcAsset)

\* one step of the call that loader l serves
RebuildStep(l) ==
  \/ ImportNext(l)
  \/ createEntity(l)
  \/ PrimitiveStep(l)
  \/ EndMesh(l)
  \/ FinishAsset(l)

NextRebuild == RebuildStep(1)

\* loader 1 imports document after document, the client keeps every asset
SpecRebuild == Init /\ [][NextRebuild]_vars

(* ------------------- what a document asks the build for --------------- *)
Range(f) == {f[i] : i \in DOMAIN f}

RECURSIVE Subtree(_, _)
\* node n of srcAsset and all its descendants
Subtree(srcAsset, n) ==
  {n} \cup UNION {Subtree(srcAsset, c) : c \in Range(srcAsset.nodes[n].children)}

\* the nodes reachable from the roots of the scene that is imported
Visited(srcAsset) ==
  IF ChosenScene(srcAsset) = 0 THEN {}
  ELSE UNION {Subtree(srcAsset, r) : r \in Range(srcAsset.scenes[ChosenScene(srcAsset)])}

\* the visited nodes that reference a mesh
MeshNodes(srcAsset) == {n \in Visited(srcAsset) : srcAsset.nodes[n].mesh # 0}

\* the (mesh, primitive index) pairs of the visited nodes
VisitedPrims(srcAsset) ==
  UNION {{<<srcAsset.nodes[n].mesh, i>> : i \in 1..Len(Meshes[srcAsset.nodes[n].mesh])}
         : n \in MeshNodes(srcAsset)}

\* the distinct source materials the visited primitives reference
VisitedMaterials(srcAsset) ==
  {Meshes[p[1]][p[2]].material : p \in VisitedPrims(srcAsset)} \ {NullPtr}

\* a primitive the build cannot turn into buffers
PrimFails(inPrim) ==
  \/ ~getPrimitiveType(inPrim.type)
  \/ inPrim.indices = NullPtr
  \/ ~getIndexType(Accessors[inPrim.indices].component_type)
  \/ \E a \in 1..Len(inPrim.attributes) :
       \/ ~getVertexAttribute(inPrim.attributes[a].type)
       \/ ~getElementType(Accessors[inPrim.attributes[a].data].type,
                          Accessors[inPrim.attributes[a].data].component_type)

HasFailingPrim(srcAsset) ==
  \E p \in VisitedPrims(srcAsset) : PrimFails(Meshes[p[1]][p[2]])

RECURSIVE BindingsExpected(_)
\* 1 + attribute count, summed over a set of (mesh, primitive index) pairs
BindingsExpected(P) ==
  IF P = {} THEN 0
  ELSE LET p == CHOOSE q \in P : TRUE
       IN  1 + Len(Meshes[p[1]][p[2]].attributes) + BindingsExpected(P \ {p})

\* the texture slots present on source material m
PresentSlots(m) ==
  {s \in {"baseColorMap", "metallicRoughnessMap", "normalMap", "occlusionMap",
          "emissiveMap"} :
     \/ s = "baseColorMap" /\ MaterialKey(m).hasBaseColorTexture
     \/ s = "metallicRoughnessMap" /\ MaterialKey(m).hasMetallicRoughnessTexture
     \/ s = "normalMap" /\ MaterialKey(m).hasNormalTexture
     \/ s = "occlusionMap" /\ MaterialKey(m).hasOcclusionTexture
     \/ s = "emissiveMap" /\ MaterialKey(m).hasEmissiveTexture}

\* the latest call on loader l was a build and it handed an asset back
Succeeded(l) == loader[l].pc = "idle" /\ loader[l].ret # NullPtr

\* the latest build on loader l is over and its document had a failing primitive
FailedBuild(l) ==
  /\ loader[l].pc = "idle"
  /\ loader[l].srcAsset # NullPtr
  /\ HasFailingPrim(SourceOf(loader[l]))

\* buffers created since the latest createAsset call on loader l
NewVertexBuffers(l) == engine.vertexBuffers \ loader[l].atCall.vertexBuffers
NewIndexBuffers(l) == engine.indexBuffers \ loader[l].atCall.indexBuffers

(* ------------------------------- claims ------------------------------- *)

\* C1: after a successful build there is exactly one vertex buffer and one
\* index buffer per visited (mesh, primitive), every visited node with a mesh
\* has registered geometry for each primitive of the mesh, and all geometry
\* registered for the same (mesh, primitive) uses the same two buffers.
C1_OnePairPerPrimitive ==
  \A l \in LoaderIds : Succeeded(l) =>
    LET G == loader[l].geometryCalls
        srcAsset == SourceOf(loader[l])
    IN  /\ Cardinality(NewVertexBuffers(l)) = Cardinality(VisitedPrims(srcAsset))
        /\ Cardinality(NewIndexBuffers(l)) = Cardinality(VisitedPrims(srcAsset))
        /\ \A n \in MeshNodes(srcAsset) :
             \A i \in 1..Len(Meshes[srcAsset.nodes[n].mesh]) :
               \E k \in DOMAIN G :
                 G[k].node = n /\ G[k].mesh = srcAsset.nodes[n].mesh /\ G[k].index = i
        /\ \A j \in DOMAIN G :
             /\ G[j].vertices \in NewVertexBuffers(l)
             /\ G[j].indices \in NewIndexBuffers(l)
             /\ \A k \in DOMAIN G :
                  (G[j].mesh = G[k].mesh /\ G[j].index = G[k].index)
                    => (G[j].vertices = G[k].vertices /\ G[j].indices = G[k].indices)

\* witness of C1: a successful build in which two nodes registered the same
\* primitive of the same mesh
C1_Witness ==
  \E l \in LoaderIds :
    /\ Succeeded(l)
    /\ \E j, k \in DOMAIN loader[l].geometryCalls :
         LET G == loader[l].geometryCalls
         IN  /\ G[j].node # G[k].node
             /\ G[j].mesh = G[k].mesh
             /\ G[j].index = G[k].index
             /\ G[j].vertices # NullPtr

\* C2 as stated: after a successful build the material instance list has as
\* many entries as there are distinct source materials on the visited
\* primitives.
C2_OneInstancePerMaterial ==
  \A l \in LoaderIds : Succeeded(l) =>
    Len(assets[loader[l].ret].mMaterialInstances)
      = Cardinality(VisitedMaterials(SourceOf(loader[l])))

\* C3 as stated: a loop iteration that obtains the instance of material m
\* gets the cached instance and builds nothing when m is cached, and otherwise
\* gets a newly built instance that is then cached under m.
C3_HitOrBuild ==
  [][\A l \in LoaderIds :
       LET L == loader[l]
           m == Meshes[L.cur.mesh][L.cur.index].material
           cache == L.mMatInstanceCache
       IN  (/\ L.pc = "prims"
            /\ loader'[l].pc = "prims"
            /\ loader'[l].cur.index = L.cur.index + 1
            /\ getPrimitiveType(Meshes[L.cur.mesh][L.cur.index].type)
            /\ m # NullPtr)
           => /\ m \in DOMAIN loader'[l].mMatInstanceCache
              /\ loader'[l].cur.mi = loader'[l].mMatInstanceCache[m]
              /\ (m \in DOMAIN cache =>
                    /\ loader'[l].mMatInstanceCache = cache
                    /\ engine'.materialInstances = engine.materialInstances)
              /\ (m \notin DOMAIN cache =>
                    /\ loader'[l].cur.mi \notin DOMAIN engine.materialInstances
                    /\ loader'[l].cur.mi \in DOMAIN engine'.materialInstances)]_vars

\* C4 as stated: after a successful build the entity list has one entry per
\* node reachable from the roots of the imported scene.
C4_EntityCount ==
  \A l \in LoaderIds : Succeeded(l) =>
    Len(assets[loader[l].ret].mEntities) = Cardinality(Visited(SourceOf(loader[l])))

\* C5: when the imported document has a primitive that cannot be built, the
\* build call returns nullptr.
C5_ErrorGivesNull ==
  \A l \in LoaderIds : FailedBuild(l) => loader[l].ret = NullPtr

\* witness of C5: a failed build has returned nullptr although another
\* primitive of the document got its vertex buffer
C5_Witness ==
  \E l \in LoaderIds :
    /\ FailedBuild(l)
    /\ loader[l].ret = NullPtr
    /\ NewVertexBuffers(l) # {}

\* C6 as stated: when a failed build has returned, the live entities, vertex
\* buffers, index buffers and material instances are those from before the call.
C6_FailureCleansUp ==
  \A l \in LoaderIds : FailedBuild(l) => LiveObjects(engine) = loader[l].atCall


\* the buffer bindings of asset a whose destination is index buffer ib
IndexBindingsOf(a, ib) ==
  {b \in DOMAIN assets[a].mBufferBindings : assets[a].mBufferBindings[b].indexBuffer = ib}

\* the buffer bindings of asset a whose destination is vertex buffer vb
VertexBindingsOf(a, vb) ==
  {b \in DOMAIN assets[a].mBufferBindings : assets[a].mBufferBindings[b].vertexBuffer = vb}

\* C7: after a successful build, and before the source data is released, the
\* buffer binding list holds for every built (mesh, primitive) one binding of
\* its index accessor to its index buffer and one binding of each attribute
\* accessor to its vertex buffer, and nothing else: its length is the sum of
\* 1 + attribute count over the distinct visited (mesh, primitive) pairs.
C7_BindingsPerPrimitive ==
  \A l \in LoaderIds :
    (Succeeded(l) /\ assets[loader[l].ret].releaseCalls = 0) =>
      LET a == loader[l].ret
          B == assets[a].mBufferBindings
          G == loader[l].geometryCalls
      IN  /\ Len(B) = BindingsExpected(VisitedPrims(SourceOf(loader[l])))
          /\ \A k \in DOMAIN G :
               LET inPrim == Meshes[G[k].mesh][G[k].index]
               IN  /\ Cardinality(IndexBindingsOf(a, G[k].indices)) = 1
                   /\ \A b \in IndexBindingsOf(a, G[k].indices) :
                        B[b].accessor = inPrim.indices
                   /\ Cardinality(VertexBindingsOf(a, G[k].vertices))
                        = Len(inPrim.attributes)
                   /\ \A attr \in 1..Len(inPrim.attributes) :
                        \E b \in VertexBindingsOf(a, G[k].vertices) :
                          /\ B[b].bufferIndex = attr - 1
                          /\ B[b].accessor = inPrim.attributes[attr].data

\* witness of C7: an unreleased, successfully built asset with bindings whose
\* document has one mesh on two nodes
C7_Witness ==
  \E l \in LoaderIds :
    /\ Succeeded(l)
    /\ assets[loader[l].ret].releaseCalls = 0
    /\ Len(assets[loader[l].ret].mBufferBindings) >= 3
    /\ \E j, k \in DOMAIN loader[l].geometryCalls :
         /\ loader[l].geometryCalls[j].node # loader[l].geometryCalls[k].node
         /\ loader[l].geometryCalls[j].mesh = loader[l].geometryCalls[k].mesh

\* C8 as stated: every source material that a successful build has put
\* through createMaterialInstance has, for each texture slot present on it, a
\* texture binding with that slot name on an instance built from it.
C8_BindingPerPresentSlot ==
  \A l \in LoaderIds :
    (Succeeded(l) /\ assets[loader[l].ret].releaseCalls = 0) =>
      \A m \in VisitedMaterials(SourceOf(loader[l])) :
        \A slot \in PresentSlots(m) :
          \E b \in DOMAIN assets[loader[l].ret].mTextureBindings :
            LET tb == assets[loader[l].ret].mTextureBindings[b]
            IN  /\ tb.materialParameter = slot
                /\ tb.materialInstance \in DOMAIN engine.materialInstances
                /\ engine.materialInstances[tb.materialInstance].source = m

\* C9: a releaseSourceData call leaves the asset with no buffer binding, no
\* texture binding, no node map entry and no source document, hands the
\* document it held to cgltf_free, and changes neither the entity list, the
\* root, the material instance list nor the bounding box.
C9_ReleaseFrame ==
  [][\A a \in DOMAIN assets :
       ReleaseSourceData(a) =>
         /\ assets'[a].mBufferBindings = << >>
         /\ assets'[a].mTextureBindings = << >>
         /\ assets'[a].mNodeMap = EmptyMap
         /\ assets'[a].mSourceAsset = NullPtr
         /\ (assets[a].mSourceAsset # NullPtr =>
               docs'[assets[a].mSourceAsset].freed = docs[assets[a].mSourceAsset].freed + 1)
         /\ assets'[a].mEntities = assets[a].mEntities
         /\ assets'[a].mRoot = assets[a].mRoot
         /\ assets'[a].mMaterialInstances = assets[a].mMaterialInstances
         /\ assets'[a].mBoundingBox = assets[a].mBoundingBox
         /\ assets'[a].alive]_vars

\* witness of C9: a live asset that a build filled with buffer bindings has
\* been released once
C9_Witness ==
  \E l \in LoaderIds :
    /\ Succeeded(l)
    /\ loader[l].geometryCalls # << >>
    /\ assets[loader[l].ret].alive
    /\ assets[loader[l].ret].releaseCalls = 1
    /\ assets[loader[l].ret].mBufferBindings = << >>
    /\ docs[loader[l].srcAsset].freed = 1

\* C10: no document is handed to cgltf_free more than once, and a
\* releaseSourceData call on an asset that was released before, the one of
\* the destructor included, changes nothing of the asset and frees nothing.
C10_ReleaseIdempotent ==
  /\ [](\A d \in DOMAIN docs : docs[d].freed <= 1)
  /\ [][\A a \in DOMAIN assets :
          (assets[a].releaseCalls >= 1 /\ assets'[a].releaseCalls > assets[a].releaseCalls)
            => /\ docs' = docs
               /\ assets'[a] = [assets[a] EXCEPT !.releaseCalls = assets'[a].releaseCalls,
                                                 !.alive = assets'[a].alive]]_vars

\* witness of C10: an asset released twice by the client and then once more
\* by its destructor, its document freed exactly once
C10_Witness ==
  \E l \in LoaderIds :
    /\ Succeeded(l)
    /\ ~assets[loader[l].ret].alive
    /\ assets[loader[l].ret].releaseCalls >= 3
    /\ docs[loader[l].srcAsset].freed = 1

\* the step is a createAssetFromJson or createAssetFromBinary call of loader l
\* whose parse succeeded
ParsedCall(l) ==
  /\ createAssetFromJson(l) \/ createAssetFromBinary(l)
  /\ Len(docs') = Len(docs) + 1

\* C11: a build call on a document that declares no scene returns at once
\* with a live asset that has no entity, no material instance, no buffer or
\* texture binding and the empty bounding box; nothing is created in the
\* engine and the error flag stays clear.
C11_ZeroScenesSucceeds ==
  [][\A l \in LoaderIds :
       (ParsedCall(l) /\ Len(docs'[Len(docs')].data.scenes) = 0)
         => /\ loader'[l].pc = "idle"
            /\ loader'[l].ret = Len(assets')
            /\ loader'[l].ret # NullPtr
            /\ ~loader'[l].mError
            /\ assets'[loader'[l].ret].alive
            /\ assets'[loader'[l].ret].mEntities = << >>
            /\ assets'[loader'[l].ret].mMaterialInstances = << >>
            /\ assets'[loader'[l].ret].mBufferBindings = << >>
            /\ assets'[loader'[l].ret].mTextureBindings = << >>
            /\ assets'[loader'[l].ret].mBoundingBox = EmptyAabb
            /\ engine' = engine]_vars

\* witness of C11: the build of a document without scenes has handed back a
\* live asset that is empty
C11_Witness ==
  \E l \in LoaderIds :
    /\ Succeeded(l)
    /\ Len(SourceOf(loader[l]).scenes) = 0
    /\ assets[loader[l].ret].alive
    /\ assets[loader[l].ret].mEntities = << >>
    /\ assets[loader[l].ret].mBoundingBox = EmptyAabb

\* entities created since the latest createAsset call on loader l
NewEntities(l) == engine.entities \ loader[l].atCall.entities

\* the entities that the latest build on loader l created for node n
EntitiesOf(l, n) ==
  {e \in NewEntities(l) :
     engine.transforms[e].local = SourceOf(loader[l]).nodes[n].xform}

\* the root nodes of the scene that is imported
SceneRoots(srcAsset) ==
  IF ChosenScene(srcAsset) = 0 THEN {}
  ELSE Range(srcAsset.scenes[ChosenScene(srcAsset)])

\* C12 as stated: a successfully built asset has a root entity that is a
\* live entity with an identity transform, no parent and no renderable, and
\* the entity of every root node of the imported scene has the root entity's
\* transform as its parent.
C12_SyntheticRoot ==
  \A l \in LoaderIds : Succeeded(l) =>
    LET root == assets[loader[l].ret].mRoot
    IN  /\ root # NullPtr
        /\ root \in engine.entities
        /\ root \in DOMAIN engine.transforms
        /\ engine.transforms[root].local = IdentityTransform
        /\ engine.transforms[root].parent = NullPtr
        /\ root \notin DOMAIN engine.renderables
        /\ \A r \in SceneRoots(SourceOf(loader[l])) :
             /\ EntitiesOf(l, r) # {}
             /\ \A e \in EntitiesOf(l, r) : engine.transforms[e].parent = root

\* C13 as stated: after a successful build the entity of every visited node
\* whose mesh has at least one primitive carries a renderable with one
\* sub-primitive per primitive of the mesh, made of the primitive's topology,
\* the buffer pair registered for it and an instance of its material.
C13_RenderablePerMeshNode ==
  \A l \in LoaderIds : Succeeded(l) =>
    \A n \in MeshNodes(SourceOf(loader[l])) :
      LET mesh == SourceOf(loader[l]).nodes[n].mesh
          G == loader[l].geometryCalls
      IN  Len(Meshes[mesh]) >= 1 =>
            /\ EntitiesOf(l, n) # {}
            /\ \A e \in EntitiesOf(l, n) :
                 /\ e \in DOMAIN engine.renderables
                 /\ Len(engine.renderables[e]) = Len(Meshes[mesh])
                 /\ \A i \in 1..Len(Meshes[mesh]) :
                      /\ engine.renderables[e][i].type = Meshes[mesh][i].type
                      /\ \E k \in DOMAIN G :
                           /\ G[k].node = n /\ G[k].index = i
                           /\ engine.renderables[e][i].vertices = G[k].vertices
                           /\ engine.renderables[e][i].indices = G[k].indices
                      /\ engine.renderables[e][i].material
                           \in DOMAIN engine.materialInstances
                      /\ engine.materialInstances[engine.renderables[e][i].material].source
                           = Meshes[mesh][i].material

RECURSIVE Preorder(_, _)
\* depth-first pre-order of the subtrees of a list of nodes, in list order
Preorder(srcAsset, nodes) ==
  IF nodes = << >> THEN << >>
  ELSE <<Head(nodes)>> \o Preorder(srcAsset, srcAsset.nodes[Head(nodes)].children)
                      \o Preorder(srcAsset, Tail(nodes))

\* the visited nodes in the order of the traversal
TraversalOrder(srcAsset) ==
  IF ChosenScene(srcAsset) = 0 THEN << >>
  ELSE Preorder(srcAsset, srcAsset.scenes[ChosenScene(srcAsset)])

\* the local matrices of the entities of an entity list, in list order
LocalsOf(entities) == [i \in DOMAIN entities |-> engine.transforms[entities[i]].local]

\* C14 as stated: after a successful build the entity list holds the entities
\* of the visited nodes in depth-first pre-order, roots and children in
\* declaration order, and two live assets built from equal documents list
\* their nodes in the same order.
C14_EntityOrder ==
  /\ \A l \in LoaderIds : Succeeded(l) =>
       LET order == TraversalOrder(SourceOf(loader[l]))
           list == assets[loader[l].ret].mEntities
       IN  /\ Len(list) = Len(order)
           /\ \A i \in DOMAIN order : list[i] \in EntitiesOf(l, order[i])
  /\ \A a, b \in DOMAIN assets :
       (assets[a].alive /\ assets[b].alive /\ docs[a].data = docs[b].data)
         => LocalsOf(assets[a].mEntities) = LocalsOf(assets[b].mEntities)

\* the position attributes of primitive inPrim whose accessor has min and max
RangedPositions(inPrim) ==
  {b \in DOMAIN inPrim.attributes :
     /\ inPrim.attributes[b].type = "position"
     /\ Accessors[inPrim.attributes[b].data].has_min
     /\ Accessors[inPrim.attributes[b].data].has_max}

\* the position accessors with a min/max range on the visited primitives
PositionRanges(srcAsset) ==
  UNION {{Accessors[Meshes[p[1]][p[2]].attributes[b].data] :
            b \in RangedPositions(Meshes[p[1]][p[2]])}
         : p \in VisitedPrims(srcAsset)}

\* C15 as stated: after a successful build of a document with at least one
\* visited position accessor that has min/max values, the bounding box is
\* not empty and spans exactly the union of those ranges.
C15_BoundingBox ==
  \A l \in LoaderIds :
    (Succeeded(l) /\ PositionRanges(SourceOf(loader[l])) # {}) =>
      LET box == assets[loader[l].ret].mBoundingBox
          R == PositionRanges(SourceOf(loader[l]))
      IN  /\ ~box.empty
          /\ \E r \in R : box.min = r.min
          /\ \A r \in R : box.min <= r.min
          /\ \E r \in R : box.max = r.max
          /\ \A r \in R : box.max >= r.max

\* C16 as stated: after a successful build, two distinct visited source
\* materials with equal feature keys have two distinct instances in the
\* asset's instance list, one built from each, and both instances are
\* instances of the same material.
C16_SharedRecipeDistinctInstances ==
  \A l \in LoaderIds : Succeeded(l) =>
    \A m1, m2 \in VisitedMaterials(SourceOf(loader[l])) :
      (m1 # m2 /\ MaterialKey(m1) = MaterialKey(m2)) =>
        \E i1, i2 \in Range(assets[loader[l].ret].mMaterialInstances) :
          /\ i1 # i2
          /\ engine.materialInstances[i1].source = m1
          /\ engine.materialInstances[i2].source = m2
          /\ engine.materialInstances[i1].material = engine.materialInstances[i2].material

\* the step is a createAssetFromJson or createAssetFromBinary call of loader l
\* whose parse failed
FailedParseCall(l) ==
  /\ createAssetFromJson(l) \/ createAssetFromBinary(l)
  /\ Len(docs') = Len(docs)

\* C17: a createAssetFromJson or createAssetFromBinary call whose parse fails
\* returns nullptr and leaves every asset, every engine object, every parsed
\* document, the loader's three caches and its error flag as they were.
C17_ParseFailureBuildsNothing ==
  [][\A l \in LoaderIds :
       FailedParseCall(l)
         => /\ loader'[l].ret = NullPtr
            /\ loader'[l].pc = "idle"
            /\ assets' = assets
            /\ engine' = engine
            /\ docs' = docs
            /\ loader'[l].mNodeToEntity = loader[l].mNodeToEntity
            /\ loader'[l].mMatInstanceCache = loader[l].mMatInstanceCache
            /\ loader'[l].mMeshCache = loader[l].mMeshCache
            /\ loader'[l].mError = loader[l].mError]_vars

\* witness of C17: a call has returned nullptr on a parse failure after an
\* earlier build, whose asset the loader still points at and which still has
\* its buffer bindings
C17_Witness ==
  \E l \in LoaderIds :
    /\ loader[l].pc = "idle"
    /\ loader[l].ret = NullPtr
    /\ loader[l].mResult # NullPtr
    /\ assets[loader[l].mResult].alive
    /\ assets[loader[l].mResult].mBufferBindings # << >>
    /\ engine.entities # {}

\* the buffer bindings createPrimitive records for inPrim, without the handles
BindingsOfPrim(inPrim) ==
  <<[accessor |-> inPrim.indices, bufferIndex |-> 0, vertex |-> FALSE]>> \o
  [attr \in 1..Len(inPrim.attributes) |->
     [accessor |-> inPrim.attributes[attr].data, bufferIndex |-> attr - 1,
      vertex |-> TRUE]]

RECURSIVE BindingsOfMesh(_)
BindingsOfMesh(prims) ==
  IF prims = << >> THEN << >>
  ELSE BindingsOfPrim(Head(prims)) \o BindingsOfMesh(Tail(prims))

RECURSIVE BindingsAlong(_, _, _)
\* the bindings of the meshes met along a list of nodes, each mesh once
BindingsAlong(srcAsset, order, seen) ==
  IF order = << >> THEN << >>
  ELSE IF srcAsset.nodes[Head(order)].mesh \in seen \cup {0}
       THEN BindingsAlong(srcAsset, Tail(order), seen)
       ELSE BindingsOfMesh(Meshes[srcAsset.nodes[Head(order)].mesh]) \o
            BindingsAlong(srcAsset, Tail(order),
                          seen \cup {srcAsset.nodes[Head(order)].mesh})

\* what a build of srcAsset hands back when no other build is running
AloneResult(srcAsset) ==
  IF HasFailingPrim(srcAsset)
  THEN [ok |-> FALSE, entities |-> 0, materialInstances |-> 0,
        bufferBindings |-> << >>, textureBindings |-> 0]
  ELSE [ok |-> TRUE, entities |-> 0, materialInstances |-> 0,
        bufferBindings |-> BindingsAlong(srcAsset, TraversalOrder(srcAsset), {}),
        textureBindings |-> 0]

\* what the finished build of loader l handed back, without the handles
ResultOf(l) ==
  IF loader[l].ret = NullPtr
  THEN [ok |-> FALSE, entities |-> 0, materialInstances |-> 0,
        bufferBindings |-> << >>, textureBindings |-> 0]
  ELSE LET A == assets[loader[l].ret]
       IN  [ok |-> TRUE,
            entities |-> Len(A.mEntities),
            materialInstances |-> Len(A.mMaterialInstances),
            bufferBindings |->
              [i \in DOMAIN A.mBufferBindings |->
                 [accessor |-> A.mBufferBindings[i].accessor,
                  bufferIndex |-> A.mBufferBindings[i].bufferIndex,
                  vertex |-> A.mBufferBindings[i].vertexBuffer # NullPtr]],
            textureBindings |-> Len(A.mTextureBindings)]

\* loader l has imported its document and the call has returned
Finished(l) == loader[l].pc = "idle" /\ loader[l].srcAsset # NullPtr

\* the buffers that the bindings of asset a fill
BuffersOf(a) ==
  [vertex |-> {assets[a].mBufferBindings[i].vertexBuffer :
                 i \in DOMAIN assets[a].mBufferBindings} \ {NullPtr},
   index |-> {assets[a].mBufferBindings[i].indexBuffer :
                i \in DOMAIN assets[a].mBufferBindings} \ {NullPtr}]

\* a step of loader l leaves loader k, the asset of k and every engine
\* object that exists as they are
Isolated(l, k) ==
  loader'[l] # loader[l] =>
    /\ loader'[k] = loader[k]
    /\ \A a \in DOMAIN assets : a # loader[l].mResult => assets'[a] = assets[a]
    /\ \A d \in DOMAIN docs : d # loader[l].srcAsset => docs'[d] = docs[d]
    /\ \A e \in engine.entities :
         e \in engine'.entities /\ engine'.transforms[e] = engine.transforms[e]
    /\ engine.vertexBuffers \subseteq engine'.vertexBuffers
    /\ engine.indexBuffers \subseteq engine'.indexBuffers

\* the result of loader l is the result of its document alone, and its asset
\* binds no buffer that the asset of loader k binds
ResultAsAlone(l, k) ==
  /\ ResultOf(l) = AloneResult(SourceOf(loader[l]))
  /\ (loader[l].ret # NullPtr /\ loader[k].mResult # NullPtr)
       => /\ BuffersOf(loader[l].ret).vertex \cap BuffersOf(loader[k].mResult).vertex = {}
          /\ BuffersOf(loader[l].ret).index \cap BuffersOf(loader[k].mResult).index = {}

\* C18: when two loaders import two documents with their steps interleaved
\* in any order, a step of one loader changes nothing of the other loader or
\* of its asset, and a build that returns hands back what a build of its
\* document hands back when it runs alone: the same success or failure, the
\* same entity and material instance lists and the same bindings.
C18_BuildsIndependent ==
  [][\A l, k \in LoaderIds :
       l # k =>
         /\ Isolated(l, k)
         /\ (~Finished(l) /\ Finished(l)') => ResultAsAlone(l, k)']_vars

\* witness of C18: both builds have returned an asset although the loader
\* that started first built its buffers after the other loader built its own
C18_Witness ==
  \E l, k \in LoaderIds :
    /\ Finished(l) /\ Finished(k)
    /\ loader[l].ret # NullPtr /\ loader[k].ret # NullPtr
    /\ loader[l].ret < loader[k].ret
    /\ \E x \in BuffersOf(loader[l].ret).index :
         \E y \in BuffersOf(loader[k].ret).index : y < x

\* the source animations of the asset that helper h was constructed on
SourceAnimations(h) == docs[helpers[h].asset].data.animations

\* the time values of all samplers of source animation srcAnim
TimeValues(srcAnim) ==
  UNION {{Floats[srcAnim.samplers[j].input][i] :
            i \in 1..Accessors[srcAnim.samplers[j].input].count}
         : j \in DOMAIN srcAnim.samplers}

\* C19 as stated: every AnimationHelper construction yields one animation
\* record per source animation, and for a source animation with samplers the
\* duration that getAnimationDuration returns is the greatest time value of
\* its samplers.
C19_DurationIsMaxTime ==
  \A h \in DOMAIN helpers :
    /\ helpers[h].constructed
    /\ Len(helpers[h].animations) = Len(SourceAnimations(h))
    /\ \A i \in DOMAIN SourceAnimations(h) :
         TimeValues(SourceAnimations(h)[i]) # {} =>
           /\ getAnimationDuration(h, i) \in TimeValues(SourceAnimations(h)[i])
           /\ \A t \in TimeValues(SourceAnimations(h)[i]) :
                t <= getAnimationDuration(h, i)

\* C20 as stated: while a successfully built asset has its source data, its
\* node map has an entry for every visited node, which is the transform of
\* the entity built for that node; and every channel of every helper
\* construction targets the transform of the entity built for the channel's
\* target node.
C20_ChannelTargets ==
  /\ \A l \in LoaderIds :
       (Succeeded(l) /\ assets[loader[l].ret].releaseCalls = 0) =>
         \A n \in Visited(SourceOf(loader[l])) :
           /\ n \in DOMAIN assets[loader[l].ret].mNodeMap
           /\ assets[loader[l].ret].mNodeMap[n] \in EntitiesOf(l, n)
  /\ \A h \in DOMAIN helpers :
       /\ helpers[h].constructed
       /\ Len(helpers[h].animations) = Len(SourceAnimations(h))
       /\ \A i \in DOMAIN SourceAnimations(h) :
            \A j \in DOMAIN SourceAnimations(h)[i].channels :
              LET target == helpers[h].animations[i].channels[j].targetInstance
                  node == SourceAnimations(h)[i].channels[j].target_node
              IN  /\ target \in DOMAIN engine.transforms
                  /\ engine.transforms[target].local
                       = docs[helpers[h].asset].data.nodes[node].xform

\* every channel of helper record H points at a sampler of its own animation
\* record, and every sampler holds its time and output values themselves
OwnsItsData(H) ==
  \A i \in DOMAIN H.animations :
    /\ \A j \in DOMAIN H.animations[i].channels :
         H.animations[i].channels[j].sourceData \in DOMAIN H.animations[i].samplers
    /\ \A j \in DOMAIN H.animations[i].samplers :
         /\ IsFiniteSet(H.animations[i].samplers[j].times)
         /\ DOMAIN H.animations[i].samplers[j].values
              = 1..Len(H.animations[i].samplers[j].values)

Destinations(b) ==
  {f \in {"vertexBuffer", "indexBuffer", "animationBuffer"} : b[f] # NullPtr}

\* the bindings that a step appends to the binding list of asset a
AppendedBindings(a) ==
  [i \in 1..(Len(assets'[a].mBufferBindings) - Len(assets[a].mBufferBindings)) |->
     assets'[a].mBufferBindings[Len(assets[a].mBufferBindings) + i]]

\* C22: every buffer binding in the list of an asset has exactly one
\* destination that is not null; and of the bindings that an iteration of the
\* primitive loop records, the first is the one of the index accessor and
\* sets only indexBuffer, and each following one is the one of a vertex
\* attribute and sets only vertexBuffer.
C22_OneDestination ==
  [][/\ \A a \in DOMAIN assets' : \A i \in DOMAIN assets'[a].mBufferBindings :
          Cardinality(Destinations(assets'[a].mBufferBindings[i])) = 1
     /\ \A l \in LoaderIds :
          (loader[l].pc = "prims" /\ AppendedBindings(loader[l].mResult) # << >>) =>
            LET new == AppendedBindings(loader[l].mResult)
                inPrim == Meshes[loader[l].cur.mesh][loader[l].cur.index]
            IN  /\ new[1].accessor = inPrim.indices
                /\ Destinations(new[1]) = {"indexBuffer"}
                /\ new[1].indexBuffer \in engine'.indexBuffers
                /\ \A i \in 2..Len(new) :
                     /\ new[i].accessor = inPrim.attributes[i - 1].data
                     /\ Destinations(new[i]) = {"vertexBuffer"}
                     /\ new[i].vertexBuffer \in engine'.vertexBuffers]_vars

\* witness of C22: a build has returned an asset whose list holds the binding
\* of an index accessor and the bindings of two vertex attributes
C22_Witness ==
  \E l \in LoaderIds :
    /\ Succeeded(l)
    /\ \E i, j, k \in DOMAIN assets[loader[l].ret].mBufferBindings :
         /\ assets[loader[l].ret].mBufferBindings[i].indexBuffer # NullPtr
         /\ assets[loader[l].ret].mBufferBindings[j].vertexBuffer # NullPtr
         /\ assets[loader[l].ret].mBufferBindings[k].vertexBuffer # NullPtr
         /\ j # k

RECURSIVE GeometryAlong(_, _)
\* the (node, primitive index) pairs that the loop hands to builder.geometry
\* along a list of nodes: every primitive of a known type, in source order
GeometryAlong(srcAsset, order) ==
  IF order = << >> THEN << >>
  ELSE LET n == Head(order)
           mesh == srcAsset.nodes[n].mesh
           known == IF mesh = 0 THEN {}
                    ELSE {i \in 1..Len(Meshes[mesh]) : getPrimitiveType(Meshes[mesh][i].type)}
       IN  [k \in 1..Cardinality(known) |-> <<n, SortedSeq(known)[k]>>]
           \o GeometryAlong(srcAsset, Tail(order))

\* C23: when a build reports failure, every node reachable from the roots of
\* the scene has been visited (one entity per node, none missing) and every
\* primitive of a known type of every visited mesh node has gone through the
\* loop body, in traversal order, whichever primitive the error was
\* recorded for.
C23_ErrorKeepsWalking ==
  [][\A l \in LoaderIds :
       (loader[l].pc = "build" /\ loader'[l].pc = "idle" /\ loader[l].mError) =>
         LET srcAsset == SourceOf(loader[l])
         IN  /\ loader'[l].ret = NullPtr
             /\ Cardinality(NewEntities(l)) = Len(TraversalOrder(srcAsset))
             /\ \A n \in Visited(srcAsset) : EntitiesOf(l, n) # {}
             /\ [i \in DOMAIN loader[l].geometryCalls |->
                    <<loader[l].geometryCalls[i].node, loader[l].geometryCalls[i].index>>]
                  = GeometryAlong(srcAsset, TraversalOrder(srcAsset))]_vars

\* witness of C23: a build has failed whose first visited node has a mesh
\* with a failing primitive followed by another primitive, and a child
C23_Witness ==
  \E l \in LoaderIds :
    /\ FailedBuild(l)
    /\ loader[l].ret = NullPtr
    /\ LET srcAsset == SourceOf(loader[l])
           root == TraversalOrder(srcAsset)[1]
       IN  /\ srcAsset.nodes[root].mesh # 0
           /\ PrimFails(Meshes[srcAsset.nodes[root].mesh][1])
           /\ Len(Meshes[srcAsset.nodes[root].mesh]) > 1
           /\ srcAsset.nodes[root].children # << >>
           /\ \E i \in DOMAIN loader[l].geometryCalls :
                loader[l].geometryCalls[i].node = root
           /\ Cardinality(NewEntities(l)) = 2

\* C24: whenever loader l is not inside a call, so at the return of every
\* build call, its mesh cache, its material-instance cache and its
\* node-to-entity map are empty; and every buffer a build hands to
\* builder.geometry and every material instance it gets for a primitive was
\* created since the call began, never by an earlier call.
C24_TransientCachesCleared ==
  \A l \in LoaderIds :
    /\ loader[l].pc = "idle" =>
         /\ loader[l].mMeshCache = EmptyMap
         /\ loader[l].mMatInstanceCache = EmptyMap
         /\ loader[l].mNodeToEntity = EmptyMap
    /\ \A i \in DOMAIN loader[l].geometryCalls :
         /\ loader[l].geometryCalls[i].vertices \in NewVertexBuffers(l) \cup {NullPtr}
         /\ loader[l].geometryCalls[i].indices \in NewIndexBuffers(l) \cup {NullPtr}
    /\ loader[l].cur.mi \notin loader[l].atCall.materialInstances

\* witness of C24: a loader has returned from its second build; both builds
\* succeeded, both documents use the same mesh, and the second build handed
\* builder.geometry a buffer pair of its own
C24_Witness ==
  \E l \in LoaderIds :
    /\ Len(docs) = 2
    /\ Succeeded(l)
    /\ loader[l].ret = 2
    /\ assets[1].alive /\ assets[1].mBufferBindings # << >>
    /\ \E n \in DOMAIN docs[1].data.nodes : \E m \in DOMAIN docs[2].data.nodes :
         /\ docs[1].data.nodes[n].mesh # 0
         /\ docs[1].data.nodes[n].mesh = docs[2].data.nodes[m].mesh
    /\ loader[l].geometryCalls # << >>
    /\ \A i \in DOMAIN loader[l].geometryCalls :
         loader[l].geometryCalls[i].vertices \notin BuffersOf(1).vertex \cup {NullPtr}
    /\ loader[l].mMeshCache = EmptyMap

\* the nodes of srcAsset that list n among their children
ParentsOf(srcAsset, n) ==
  {p \in DOMAIN srcAsset.nodes : n \in Range(srcAsset.nodes[p].children)}

\* C25: in a build and after it, the transform of the entity of a visited
\* node n that has a parent node p is a child of the transform of the entity
\* of p, which was created earlier, and its local matrix is the local matrix
\* of n; the transform of the entity of a root of the scene has no parent;
\* and a build that has returned has made one entity for every visited node.
C25_TransformsMirrorNodes ==
  \A l \in LoaderIds :
    loader[l].srcAsset # NullPtr =>
      LET srcAsset == SourceOf(loader[l])
      IN  /\ \A e \in NewEntities(l) :
               \E n \in Visited(srcAsset) :
                 /\ engine.transforms[e].local = srcAsset.nodes[n].xform
                 /\ IF n \in SceneRoots(srcAsset)
                    THEN engine.transforms[e].parent = NullPtr
                    ELSE /\ engine.transforms[e].parent \in NewEntities(l)
                         /\ engine.transforms[e].parent < e
                         /\ \E p \in ParentsOf(srcAsset, n) :
                              engine.transforms[engine.transforms[e].parent].local
                                = srcAsset.nodes[p].xform
          /\ loader[l].pc = "idle" =>
               \A n \in Visited(srcAsset) : Cardinality(EntitiesOf(l, n)) = 1

\* witness of C25: a build has returned after visiting a node and its child
C25_Witness ==
  \E l \in LoaderIds :
    /\ Succeeded(l)
    /\ \E e \in NewEntities(l) :
         /\ engine.transforms[e].parent \in NewEntities(l)
         /\ engine.transforms[e].local = 2
         /\ engine.transforms[engine.transforms[e].parent].local = 1

\* the texture references of source material m
TextureSlots(m) ==
  {Materials[m].base_color_texture, Materials[m].metallic_roughness_texture,
   Materials[m].normal_texture, Materials[m].occlusion_texture,
   Materials[m].emissive_texture}

\* material reference m is present and each texture it references has an
\* image and a sampler
OrdinaryMaterial(m) ==
  /\ m # NullPtr
  /\ \A t \in TextureSlots(m) :
       t.texture # NullPtr =>
         Textures[t.texture].image # NullPtr /\ Textures[t.texture].sampler # NullPtr

\* the visited materials of srcAsset that use the specular-glossiness model
SpecGlossMaterials(srcAsset) ==
  {m \in VisitedMaterials(srcAsset) : Materials[m].has_pbr_specular_glossiness}

\* srcAsset visits a specular-glossiness material and has nothing else out
\* of the ordinary: every visited primitive can be built and has a material
\* whose textures are complete
OnlySpecGlossUnusual(srcAsset) ==
  /\ SpecGlossMaterials(srcAsset) # {}
  /\ ~HasFailingPrim(srcAsset)
  /\ \A p \in VisitedPrims(srcAsset) : OrdinaryMaterial(Meshes[p[1]][p[2]].material)

\* C26 as stated: a build of a document whose only unusual feature is a
\* specular-glossiness material never sets the error flag and runs to its
\* end, where it returns an asset that lists an instance built from that
\* material with the parameters that do not depend on the material model.
C26_SpecGlossStillBuilds ==
  [][\A l \in LoaderIds :
       (/\ loader[l].pc \in {"build", "prims"}
        /\ OnlySpecGlossUnusual(SourceOf(loader[l]))) =>
         /\ ~loader'[l].mError
         /\ loader'[l].pc # "crashed"
         /\ loader'[l].pc = "idle" =>
              /\ loader'[l].ret # NullPtr
              /\ \A m \in SpecGlossMaterials(SourceOf(loader[l])) :
                   \E mi \in Range(assets'[loader'[l].ret].mMaterialInstances) :
                     /\ engine'.materialInstances[mi].source = m
                     /\ engine'.materialInstances[mi].params
                          = {"emissiveFactor", "normalScale", "aoStrength"}]_vars

\* the parameters that lines 367-377 set on an instance of source material m
ScalarParameters(m) ==
  {"emissiveFactor", "normalScale", "aoStrength"}
    \cup (IF Materials[m].has_pbr_metallic_roughness
          THEN {"baseColorFactor", "metallicFactor", "roughnessFactor"}
          ELSE {})

\* the texture of source material m that goes into slot s
SlotTexture(m, s) ==
  IF s = "baseColorMap" THEN Materials[m].base_color_texture.texture
  ELSE IF s = "metallicRoughnessMap" THEN Materials[m].metallic_roughness_texture.texture
  ELSE IF s = "normalMap" THEN Materials[m].normal_texture.texture
  ELSE IF s = "occlusionMap" THEN Materials[m].occlusion_texture.texture
  ELSE Materials[m].emissive_texture.texture

\* instance mi of source material m has all its parameters, and asset A
\* lists a texture binding for each slot of m whose texture has an image
FullyParameterized(A, m, mi) ==
  /\ mi \in DOMAIN engine.materialInstances
  /\ engine.materialInstances[mi].source = m
  /\ engine.materialInstances[mi].params = ScalarParameters(m)
  /\ mi \in Range(A.mMaterialInstances)
  /\ \A s \in PresentSlots(m) :
       Textures[SlotTexture(m, s)].image # NullPtr =>
         \E i \in DOMAIN A.mTextureBindings :
           /\ A.mTextureBindings[i].materialInstance = mi
           /\ A.mTextureBindings[i].materialParameter = s

\* C27: every entry of the material-instance cache of a loader holds an
\* instance that has all its scalar and vector parameters and whose texture
\* bindings are all in the list of the asset under construction.
C27_CacheHoldsFinishedInstances ==
  \A l \in LoaderIds :
    \A m \in DOMAIN loader[l].mMatInstanceCache :
      FullyParameterized(assets[loader[l].mResult], m, loader[l].mMatInstanceCache[m])

\* the case of C27: a cache holds the instance of a material with a texture
C27_EntryInserted ==
  \E l \in LoaderIds :
    \E m \in DOMAIN loader[l].mMatInstanceCache : PresentSlots(m) # {}

\* a step that creates no buffer, no material instance and no renderable,
\* leaves every asset as it is, and neither sets the error flag of loader l
\* nor hands anything to builder.geometry
BuildsNothing(l) ==
  /\ loader'[l].mError = loader[l].mError
  /\ loader'[l].geometryCalls = loader[l].geometryCalls
  /\ engine'.vertexBuffers = engine.vertexBuffers
  /\ engine'.indexBuffers = engine.indexBuffers
  /\ engine'.materialInstances = engine.materialInstances
  /\ engine'.renderables = engine.renderables
  /\ assets' = assets

\* the visited nodes of srcAsset whose mesh has no primitives
EmptyMeshNodes(srcAsset) ==
  {n \in MeshNodes(srcAsset) : Len(Meshes[srcAsset.nodes[n].mesh]) = 0}

BuildReturns(l) ==
  /\ loader'[l].pc = "idle"
  /\ \/ loader[l].pc = "build"
     \/ /\ loader[l].pc = "idle"
        /\ Len(docs') > Len(docs)
        /\ loader'[l].srcAsset = Len(docs')

\* C29: whatever calls a loader has served before, it is outside a call only
\* with its error flag clear, and a build that returns hands back what a
\* build of its document hands back on a loader that has served no call:
\* the same success or failure, the same entity and material instance lists
\* and the same bindings.
C29_BuildForgetsEarlierBuilds ==
  [][\A l \in LoaderIds :
       /\ loader'[l].pc = "idle" => ~loader'[l].mError
       /\ BuildReturns(l) => (ResultOf(l) = AloneResult(SourceOf(loader[l])))']_vars

\* witness of C29: the first build of a loader failed and deleted its asset,
\* the second build of the same loader has returned an asset with bindings
C29_Witness ==
  \E l \in LoaderIds :
    /\ Len(docs) = 2
    /\ HasFailingPrim(docs[1].data)
    /\ ~assets[1].alive
    /\ Succeeded(l)
    /\ loader[l].ret = 2
    /\ loader[l].srcAsset = 2
    /\ MeshNodes(docs[2].data) # {}
    /\ assets[2].mBufferBindings # << >>
    /\ ~loader[l].mError

\* loader l is at the iteration of the primitive loop that asks
\* createMaterialInstance for the instance of a null material
AtNullMaterial(l) ==
  /\ loader[l].pc = "prims"
  /\ loader[l].cur.index <= Len(Meshes[loader[l].cur.mesh])
  /\ getPrimitiveType(Meshes[loader[l].cur.mesh][loader[l].cur.index].type)
  /\ Meshes[loader[l].cur.mesh][loader[l].cur.index].material = NullPtr

CallBundle(l) ==
  [L |-> [loader[l] EXCEPT !.mError = FALSE], A |-> assets[loader[l].mResult],
   E |-> engine, crashed |-> FALSE]

\* loader l is at an iteration of the primitive loop that calls
\* createPrimitive, and the call sets the error flag
AtFailingCreatePrimitive(l) ==
  /\ loader[l].pc = "prims"
  /\ loader[l].cur.index <= Len(Meshes[loader[l].cur.mesh])
  /\ getPrimitiveType(Meshes[loader[l].cur.mesh][loader[l].cur.index].type)
  /\ NeedsBuild(loader[l], loader[l].cur.mesh, loader[l].cur.index)
  /\ createPrimitive(CallBundle(l), Meshes[loader[l].cur.mesh][loader[l].cur.index],
                     loader[l].cur.mesh, loader[l].cur.index).L.mError

\* C31 as stated: a loop iteration whose createPrimitive call sets the error
\* flag creates no index buffer and no vertex buffer, appends no buffer
\* binding to the asset, and leaves the slot of the mesh cache empty.
C31_CreatePrimitiveAtomic ==
  [][\A l \in LoaderIds :
       (AtFailingCreatePrimitive(l) /\ loader'[l] # loader[l]) =>
         /\ loader'[l].mError
         /\ engine'.indexBuffers = engine.indexBuffers
         /\ engine'.vertexBuffers = engine.vertexBuffers
         /\ assets'[loader[l].mResult].mBufferBindings
              = assets[loader[l].mResult].mBufferBindings
         /\ Slot(loader'[l], loader[l].cur.mesh, loader[l].cur.index)
              = [vertices |-> NullPtr, indices |-> NullPtr]]_vars

\* the texture slots of source material m whose texture has an image and no
\* sampler
SamplerlessSlots(m) ==
  {s \in PresentSlots(m) :
     /\ Textures[SlotTexture(m, s)].image # NullPtr
     /\ Textures[SlotTexture(m, s)].sampler = NullPtr}

\* loader l is at the iteration of the primitive loop that asks for the
\* instance of a material with such a slot
AtSamplerlessTexture(l) ==
  /\ loader[l].pc = "prims"
  /\ loader[l].cur.index <= Len(Meshes[loader[l].cur.mesh])
  /\ getPrimitiveType(Meshes[loader[l].cur.mesh][loader[l].cur.index].type)
  /\ Meshes[loader[l].cur.mesh][loader[l].cur.index].material # NullPtr
  /\ SamplerlessSlots(Meshes[loader[l].cur.mesh][loader[l].cur.index].material) # {}

\* C32 as stated: no step of a build reads through a null sampler, and once
\* the loop has obtained the instance of a material that has a texture with
\* an image and no sampler, the asset lists a binding of that image to the
\* slot of the texture, with sampler settings that are determined.
C32_AbsentSamplerNotRead ==
  [][\A l \in LoaderIds :
       /\ loader'[l].fault # "sampler"
       /\ (AtSamplerlessTexture(l) /\ loader'[l] # loader[l]) =>
            LET m == Meshes[loader[l].cur.mesh][loader[l].cur.index].material
                bindings == assets'[loader[l].mResult].mTextureBindings
            IN  \A s \in SamplerlessSlots(m) :
                  \E i \in DOMAIN bindings :
                    /\ bindings[i].materialParameter = s
                    /\ bindings[i].image = Textures[SlotTexture(m, s)].image
                    /\ bindings[i].sampler # "indeterminate"]_vars

====
